---- MODULE Spec2Model ----
(***************************************************************************)
(* A model of the honeypot conversation engine: the entity extractor       *)
(* (extractor.py), the scam classifier (detector.py), the session record   *)
(* and registry (session_store.py), the dialogue policy engine            *)
(* (agent_engine.py), the completion/reporting protocol                    *)
(* (callback_reporter.py) and the /honeypot orchestration (app.py).        *)
(*                                                                         *)
(* Message text is a sequence of whitespace-separated tokens.  A token     *)
(* carries what the regular expressions of extractor.py and detector.py    *)
(* read from it:                                                           *)
(*   kind   "word" | "name" | "cue" | "url" | "upi" | "ifsc" | "digits"    *)
(*   text   the token as the extractor reports it                          *)
(*   trail  punctuation that trails a URL in the raw text                  *)
(*   groups for "digits": the digit groups, separated in the raw text by   *)
(*          one space or hyphen                                            *)
(*   lead   the leading run of letters of the token, nchars its length     *)
(*   pure   TRUE when the token consists of letters, '.', '-' only         *)
(*   words  the lower-case words of the token (between \b boundaries)      *)
(*   subs   the lower-case vocabulary terms the token contains             *)
(***************************************************************************)
EXTENDS Integers, Sequences, FiniteSets, Bags, TLC

(***************************************************************************)
(* Bounds of the model.                                                    *)
(***************************************************************************)
MaxTurns == 20
MaxReqs == 3
MaxTranscript == 2
MaxPool == 5
MaxLife == 3

(***************************************************************************)
(* Generic sequence helpers.                                               *)
(***************************************************************************)
InSeq(v, xs) == \E i \in 1..Len(xs) : xs[i] = v

Range(xs) == {xs[i] : i \in 1..Len(xs)}

NoDup(xs) == \A i, j \in 1..Len(xs) : xs[i] = xs[j] => i = j

RECURSIVE Concat(_)
Concat(xss) == IF xss = <<>> THEN <<>> ELSE Head(xss) \o Concat(Tail(xss))

Max(a, b) == IF a >= b THEN a ELSE b

(***************************************************************************)
(* The token vocabulary.                                                   *)
(***************************************************************************)
Tok(kind, text, trail, groups, lead, nchars, pure, words, subs) ==
    [kind |-> kind, text |-> text, trail |-> trail, groups |-> groups,
     lead |-> lead, nchars |-> nchars, pure |-> pure, words |-> words, subs |-> subs]

W_hello == Tok("word", "hello", "", <<>>, "hello", 5, TRUE, {"hello"}, {})
W_ok == Tok("word", "ok", "", <<>>, "ok", 2, TRUE, {"ok"}, {})
W_otp == Tok("word", "otp", "", <<>>, "otp", 3, TRUE, {"otp"}, {"otp"})
U_x1 == Tok("url", "http://bit.ly/x1", "", <<>>, "http", 4, FALSE,
            {"http", "bit", "ly", "x1"}, {"http"})
U_x1dot == Tok("url", "http://bit.ly/x1", ".", <<>>, "http", 4, FALSE,
               {"http", "bit", "ly", "x1"}, {"http"})
U_pay == Tok("url", "http://sbi-pay.in/v", "", <<>>, "http", 4, FALSE,
             {"http", "sbi", "pay", "in", "v"}, {"http"})
P_fraud == Tok("upi", "fraud@upi", "", <<>>, "fraud", 5, FALSE, {"fraud", "upi"}, {"upi"})
D_phone == Tok("digits", "+919876543210", "", << <<9,1,9,8,7,6,5,4,3,2,1,0>> >>,
               "", 0, FALSE, {}, {})
D_acct == Tok("digits", "123456789012", "", << <<1,2,3,4,5,6,7,8,9,0,1,2>> >>,
              "", 0, FALSE, {}, {})
D_spaced == Tok("digits", "91 9876 543210", "", << <<9,1>>, <<9,8,7,6>>, <<5,4,3,2,1,0>> >>,
                "", 0, FALSE, {}, {})
I_sbin == Tok("ifsc", "SBIN0001234", "", <<>>, "SBIN", 4, FALSE, {"sbin0001234"}, {})
C_benef == Tok("cue", "beneficiary:", "", <<>>, "beneficiary", 11, FALSE, {"beneficiary"}, {})
N_test == Tok("name", "Test", "", <<>>, "Test", 4, TRUE, {"test"}, {"test"})
N_rahul == Tok("name", "Rahul", "", <<>>, "Rahul", 5, TRUE, {"rahul"}, {})

(***************************************************************************)
(* extractor.py                                                            *)
(***************************************************************************)
\* _unique: order-preserving, drops repeats (and empty values: no match of the
\* regular expressions is empty, so there is none to drop)
RECURSIVE UniqueFrom(_, _)
UniqueFrom(xs, out) ==
    IF xs = <<>> THEN out
    ELSE IF InSeq(Head(xs), out) THEN UniqueFrom(Tail(xs), out)
    ELSE UniqueFrom(Tail(xs), Append(out, Head(xs)))

Unique(xs) == UniqueFrom(xs, <<>>)

\* _clean_url: the URL with its trailing punctuation removed
CleanUrl(tok) == tok.text

\* URL_RE.findall, cleaned
RECURSIVE UrlMatches(_)
UrlMatches(t) ==
    IF t = <<>> THEN <<>>
    ELSE (IF Head(t).kind = "url" THEN <<CleanUrl(Head(t))>> ELSE <<>>) \o UrlMatches(Tail(t))

\* PHONE_RE on one digit group: the 10-digit core that ends the group
PhoneCore(g) ==
    IF Len(g) >= 10 /\ g[Len(g) - 9] \in 6..9
    THEN <<SubSeq(g, Len(g) - 9, Len(g))>>
    ELSE <<>>

RECURSIVE GroupPhones(_)
GroupPhones(gs) == IF gs = <<>> THEN <<>> ELSE PhoneCore(Head(gs)) \o GroupPhones(Tail(gs))

RECURSIVE PhoneMatches(_)
PhoneMatches(t) ==
    IF t = <<>> THEN <<>> ELSE GroupPhones(Head(t).groups) \o PhoneMatches(Tail(t))

\* UPI_RE.findall
RECURSIVE UpiMatches(_)
UpiMatches(t) ==
    IF t = <<>> THEN <<>>
    ELSE (IF Head(t).kind = "upi" THEN <<Head(t).text>> ELSE <<>>) \o UpiMatches(Tail(t))

\* IFSC_RE.findall, upper-cased (text holds the upper-case form)
RECURSIVE IfscMatches(_)
IfscMatches(t) ==
    IF t = <<>> THEN <<>>
    ELSE (IF Head(t).kind = "ifsc" THEN <<Head(t).text>> ELSE <<>>) \o IfscMatches(Tail(t))

\* BANK_STRICT_RE: a contiguous run of 11 to 18 digits
RECURSIVE GroupStrict(_)
GroupStrict(gs) ==
    IF gs = <<>> THEN <<>>
    ELSE (IF Len(Head(gs)) >= 11 /\ Len(Head(gs)) <= 18 THEN <<Head(gs)>> ELSE <<>>)
         \o GroupStrict(Tail(gs))

RECURSIVE BankStrictMatches(_)
BankStrictMatches(t) ==
    IF t = <<>> THEN <<>> ELSE GroupStrict(Head(t).groups) \o BankStrictMatches(Tail(t))

\* _digits_only of a spaced or hyphenated run
DigitsOnly(gs) == Concat(gs)

\* BANK_LAX_RE: a spaced/hyphenated run, kept when it normalises to 11..18 digits
\* (the runs of the vocabulary have at most 22 digits, the most one match spans)
RECURSIVE BankLaxMatches(_)
BankLaxMatches(t) ==
    IF t = <<>> THEN <<>>
    ELSE LET d == DigitsOnly(Head(t).groups) IN
         (IF Len(d) >= 11 /\ Len(d) <= 18 THEN <<d>> ELSE <<>>) \o BankLaxMatches(Tail(t))

\* BENEF_RE: the capture after a cue runs over letters, spaces, '.', '-'
RECURSIVE BenefCapture(_)
BenefCapture(t) ==
    IF t = <<>> THEN <<>>
    ELSE IF Head(t).pure THEN <<Head(t).lead>> \o BenefCapture(Tail(t))
    ELSE IF Head(t).nchars > 0 /\ Head(t).kind # "cue" THEN <<Head(t).lead>>
    ELSE <<>>

StrLen(s) ==
    CASE s = "hello" -> 5 [] s = "ok" -> 2 [] s = "otp" -> 3 [] s = "http" -> 4
      [] s = "fraud" -> 5 [] s = "SBIN" -> 4 [] s = "Test" -> 4 [] s = "Rahul" -> 5
      [] OTHER -> 0

RECURSIVE NameLen(_)
NameLen(n) == IF n = <<>> THEN 0
              ELSE StrLen(Head(n)) + (IF Tail(n) = <<>> THEN 0 ELSE 1) + NameLen(Tail(n))

RECURSIVE BenefMatches(_)
BenefMatches(t) ==
    IF t = <<>> THEN <<>>
    ELSE IF Head(t).kind = "cue"
         THEN LET name == BenefCapture(Tail(t)) IN
              (IF NameLen(name) >= 3 /\ NameLen(name) <= 40 THEN <<name>> ELSE <<>>)
              \o BenefMatches(Tail(t))
         ELSE BenefMatches(Tail(t))

KEYWORDS == <<"urgent", "immediately", "verify", "blocked", "suspended", "kyc", "otp",
              "account", "bank", "limit", "freeze", "locked", "click", "link", "payment",
              "transfer", "fee", "support", "helpline">>

\* k in lower: substring containment in the whole text
Contains(t, k) == \E i \in 1..Len(t) : k \in t[i].subs

\* the digits of "91" + p
Prefix91(p) == <<9, 1>> \o p

\* extract_all without the filters (A), (B), (C) on the bank accounts
extract_all_Unfiltered(t) ==
    LET phishing_links == Unique(UrlMatches(t))
        phones == Unique(PhoneMatches(t))
        upis == Unique(UpiMatches(t))
        ifscs == Unique(IfscMatches(t))
        beneficiaries == Unique(BenefMatches(t))
        banks0 == Unique(BankStrictMatches(t) \o BankLaxMatches(t))
        \* (A) never treat phone numbers as bank accounts
        NotPhone(b) == ~InSeq(b, phones)
        banksA == SelectSeq(banks0, NotPhone)
        \* (B) never treat "91" + phone as a bank account
        NotPhone12(b) == \A i \in 1..Len(phones) : b # Prefix91(phones[i])
        banksB == SelectSeq(banksA, NotPhone12)
        \* (C) reject 12 digits starting with 91
        Not91(b) == ~(Len(b) = 12 /\ b[1] = 9 /\ b[2] = 1)
        banks == banks0
        IsHit(k) == Contains(t, k)
        suspicious == Unique(SelectSeq(KEYWORDS, IsHit))
    IN [upiIds |-> upis, bankAccounts |-> banks, phishingLinks |-> phishing_links,
        phoneNumbers |-> phones, ifscCodes |-> ifscs, beneficiaryNames |-> beneficiaries,
        suspiciousKeywords |-> suspicious]

extract_all(t) ==
    LET phishing_links == Unique(UrlMatches(t))
        phones == Unique(PhoneMatches(t))
        upis == Unique(UpiMatches(t))
        ifscs == Unique(IfscMatches(t))
        beneficiaries == Unique(BenefMatches(t))
        banks0 == Unique(BankStrictMatches(t) \o BankLaxMatches(t))
        \* (A) never treat phone numbers as bank accounts
        NotPhone(b) == ~InSeq(b, phones)
        banksA == SelectSeq(banks0, NotPhone)
        \* (B) never treat "91" + phone as a bank account
        NotPhone12(b) == \A i \in 1..Len(phones) : b # Prefix91(phones[i])
        banksB == SelectSeq(banksA, NotPhone12)
        \* (C) reject 12 digits starting with 91
        Not91(b) == ~(Len(b) = 12 /\ b[1] = 9 /\ b[2] = 1)
        banks == SelectSeq(banksB, Not91)
        IsHit(k) == Contains(t, k)
        suspicious == Unique(SelectSeq(KEYWORDS, IsHit))
    IN [upiIds |-> upis, bankAccounts |-> banks, phishingLinks |-> phishing_links,
        phoneNumbers |-> phones, ifscCodes |-> ifscs, beneficiaryNames |-> beneficiaries,
        suspiciousKeywords |-> suspicious]

(***************************************************************************)
(* detector.py                                                             *)
(***************************************************************************)
HasWord(t, ws) == \E i \in 1..Len(t) : t[i].words \cap ws # {}

\* \bA\b.*\bB\b : a word of as, later in the text a word of bs
WordThenWord(t, as, bs) ==
    \E i, j \in 1..Len(t) : i < j /\ t[i].words \cap as # {} /\ t[j].words \cap bs # {}

\* a two-word phrase "a b" contained in the text
ContainsPhrase(t, a, b) ==
    \E i \in 1..Len(t) : i < Len(t) /\ a \in t[i].words /\ b \in t[i + 1].words

HasUrl(t) == \E i \in 1..Len(t) : t[i].kind = "url"

STRONG_PATTERNS(t) ==
    << WordThenWord(t, {"account"}, {"block", "blocked", "suspend", "suspended", "freeze", "frozen"}),
       WordThenWord(t, {"verify"}, {"now", "immediately"}),
       HasWord(t, {"upi", "otp", "kyc"}),
       WordThenWord(t, {"click"}, {"link"}) \/ HasUrl(t) \/ Contains(t, "www."),
       HasWord(t, {"refund", "cashback"}) \/ WordThenWord(t, {"loan"}, {"approved"}),
       ContainsPhrase(t, "customer", "care") \/ HasWord(t, {"customercare", "helpline"}) >>

MEDIUM_KEYWORDS(t) ==
    << Contains(t, "urgent"), Contains(t, "immediately"), Contains(t, "today"),
       Contains(t, "final"), ContainsPhrase(t, "limited", "time"), Contains(t, "blocked"),
       Contains(t, "suspended"), Contains(t, "freeze"), Contains(t, "verify"),
       ContainsPhrase(t, "update", "kyc") >>

CountTrue(bs) == Cardinality({i \in 1..Len(bs) : bs[i]})

DetectorKeywords == <<"blocked", "verify", "urgent", "otp", "kyc", "upi", "link", "refund", "cashback">>

detect_scam(t) ==
    LET strong_hits == CountTrue(STRONG_PATTERNS(t))
        medium_hits == CountTrue(MEDIUM_KEYWORDS(t))
        \* scam_prob in hundredths: min(1.0, 0.45 * strong + 0.12 * medium)
        raw == 45 * strong_hits + 12 * medium_hits
        scam_prob == IF raw > 100 THEN 100 ELSE raw
        scam_detected == strong_hits >= 1 \/ medium_hits >= 3 \/ scam_prob >= 45
        scam_type ==
            IF Contains(t, "upi") THEN "upi_fraud"
            ELSE IF Contains(t, "otp") \/ Contains(t, "kyc") THEN "bank_kyc"
            ELSE IF Contains(t, "http") \/ Contains(t, "www.") \/ Contains(t, "link")
                    \/ Contains(t, "click") THEN "phishing"
            ELSE IF ContainsPhrase(t, "customer", "care") \/ Contains(t, "helpline")
                 THEN "helpdesk_impersonation"
            ELSE "unknown"
        IsHit(k) == Contains(t, k)
    IN [scamDetected |-> scam_detected, scamType |-> scam_type,
        keywords |-> SelectSeq(DetectorKeywords, IsHit)]

(***************************************************************************)
(* The message texts and conversation histories the requests draw from.    *)
(***************************************************************************)
M_hello == <<W_hello>>
M_otp == <<W_otp>>
M_link == <<U_x1dot>>
M_link2 == <<U_x1, U_pay>>
M_upi == <<P_fraud>>
M_phone == <<D_phone>>
M_acct == <<D_acct, I_sbin>>
M_benef == <<C_benef, N_test>>
M_ok == <<W_ok>>
M_spaced == <<D_spaced>>

\* the texts with digits: a phone with its country code, an account with its IFSC,
\* the country code and a phone number written in groups
DigitTexts == {M_phone, M_acct, M_spaced}

M_benef_link == <<C_benef, N_test, U_x1>>
M_upi_link == <<P_fraud, U_x1>>
M_rahul_link == <<C_benef, N_rahul, U_x1>>

\* the texts that offer entities of several kinds at once: a placeholder
\* beneficiary name and a link, a payment handle and a link, a beneficiary name
\* that is no placeholder and a link
ReactiveTexts == {M_benef_link, M_upi_link, M_rahul_link}

\* every message text of the model
Messages == {M_hello, M_otp, M_link, M_link2, M_upi, M_phone, M_acct, M_benef}

\* the texts a long conversation draws its turns from
TurnMessages == {M_hello, M_otp, M_link, M_phone}

H_none == <<>>
\* an account message, our reply, a beneficiary message
H_short == <<M_acct, M_ok, M_benef>>
\* a transcript of 20 entries: an account with its IFSC, a beneficiary, then small talk
H_mid == [i \in 1..20 |-> IF i = 1 THEN M_acct ELSE IF i = 3 THEN M_benef ELSE M_ok]
\* a transcript of 34 entries: a link, a phone, then small talk
H_long == [i \in 1..34 |-> IF i = 1 THEN M_link ELSE IF i = 3 THEN M_phone ELSE M_ok]

\* a transcript of 30 entries of small talk
H_talk == [i \in 1..30 |-> M_ok]
\* a transcript of 26 entries of small talk
H_chat == [i \in 1..26 |-> M_ok]

Histories == {H_none, H_short, H_mid, H_long, H_talk, H_chat}

\* the histories a long conversation's first request may carry
TurnHistories == {H_none, H_mid, H_long}

SessionIds == {"s1", "s2"}

(***************************************************************************)
(* session_store.py                                                        *)
(***************************************************************************)
IntelKeys == {"upiIds", "bankAccounts", "phishingLinks", "phoneNumbers",
              "ifscCodes", "beneficiaryNames"}

\* SessionState(sessionId = sid, personaSeed = seed), every other field at its default
SessionState(sid, seed) ==
    [sessionId |-> sid, scamDetected |-> FALSE, scamType |-> "unknown", stage |-> "HOOK",
     turnCount |-> 0, completed |-> FALSE, callbackFailures |-> 0,
     upiIds |-> <<>>, bankAccounts |-> <<>>, phishingLinks |-> <<>>, phoneNumbers |-> <<>>,
     ifscCodes |-> <<>>, beneficiaryNames |-> <<>>, suspiciousKeywords |-> <<>>,
     personaSeed |-> seed, lastIntent |-> "", repeatIntentCount |-> 0,
     usedExcuses |-> <<>>, lastHistoryLen |-> 0]

\* the number of non-empty intelligence categories
Categories(s) == Cardinality({k \in IntelKeys : s[k] # <<>>})

\* should_complete with the second rule one turn late (turnCount > 12)
should_complete_LateRule(s) ==
    LET categories == Cardinality({k \in IntelKeys : s[k] # <<>>})
    IN IF categories >= 3 /\ s.turnCount >= 10 THEN TRUE
       ELSE IF categories >= 2 /\ s.turnCount > 12 THEN TRUE
       ELSE IF categories >= 1 /\ s.turnCount >= 16 THEN TRUE
       ELSE IF s.turnCount >= 18 THEN TRUE
       ELSE FALSE

should_complete(s) ==
    LET categories == (IF s.upiIds # <<>> THEN 1 ELSE 0) + (IF s.bankAccounts # <<>> THEN 1 ELSE 0)
                      + (IF s.phishingLinks # <<>> THEN 1 ELSE 0)
                      + (IF s.phoneNumbers # <<>> THEN 1 ELSE 0)
                      + (IF s.ifscCodes # <<>> THEN 1 ELSE 0)
                      + (IF s.beneficiaryNames # <<>> THEN 1 ELSE 0)
    IN IF categories >= 3 /\ s.turnCount >= 10 THEN TRUE
       ELSE IF categories >= 2 /\ s.turnCount >= 12 THEN TRUE
       ELSE IF categories >= 1 /\ s.turnCount >= 16 THEN TRUE
       ELSE IF s.turnCount >= 18 THEN TRUE
       ELSE FALSE

total_messages_exchanged(s) == s.lastHistoryLen + 2

build_callback_payload(s) ==
    [sessionId |-> s.sessionId, scamDetected |-> s.scamDetected,
     totalMessagesExchanged |-> total_messages_exchanged(s),
     bankAccounts |-> s.bankAccounts, upiIds |-> s.upiIds,
     phishingLinks |-> s.phishingLinks, phoneNumbers |-> s.phoneNumbers,
     suspiciousKeywords |-> s.suspiciousKeywords,
     scamType |-> s.scamType, stage |-> s.stage,
     items |-> Len(s.upiIds) + Len(s.bankAccounts) + Len(s.phishingLinks) + Len(s.phoneNumbers)]

\* is_fresh_state without the test of turnCount
is_fresh_state_NoTurnTest(s) ==
    /\ s.upiIds = <<>>
    /\ s.bankAccounts = <<>>
    /\ s.phishingLinks = <<>>
    /\ s.phoneNumbers = <<>>
    /\ s.ifscCodes = <<>>
    /\ s.beneficiaryNames = <<>>
    /\ s.suspiciousKeywords = <<>>
    /\ ~s.scamDetected

is_fresh_state(s) ==
    /\ s.turnCount = 0
    /\ s.upiIds = <<>>
    /\ s.bankAccounts = <<>>
    /\ s.phishingLinks = <<>>
    /\ s.phoneNumbers = <<>>
    /\ s.ifscCodes = <<>>
    /\ s.beneficiaryNames = <<>>
    /\ s.suspiciousKeywords = <<>>
    /\ ~s.scamDetected

\* the merge without its membership test
MergeList_AppendAll(current, vals) == current \o vals

\* for v in vals: if v not in current: current.append(v)
RECURSIVE MergeList(_, _)
MergeList(current, vals) ==
    IF vals = <<>> THEN current
    ELSE IF InSeq(Head(vals), current) THEN MergeList(current, Tail(vals))
    ELSE MergeList(Append(current, Head(vals)), Tail(vals))

\* the merge that stores the extracted values in place of the accumulated ones
MergeKeys_Overwrite(s, e, ks) ==
    [f \in DOMAIN s |-> IF f \in ks \/ f = "suspiciousKeywords" THEN e[f] ELSE s[f]]

\* the merge of one extraction result into the keys ks of the record, and of its
\* suspiciousKeywords
MergeKeys(s, e, ks) ==
    [f \in DOMAIN s |->
        IF f \in ks \/ f = "suspiciousKeywords" THEN MergeList(s[f], e[f]) ELSE s[f]]

\* the body of the loop of rebuild_from_history, over the entries of the history
RECURSIVE RebuildLoop(_, _)
RebuildLoop(s, history) ==
    IF history = <<>> THEN s
    ELSE IF Head(history) = <<>> THEN RebuildLoop(s, Tail(history))
    ELSE RebuildLoop(MergeKeys(s, extract_all(Head(history)), IntelKeys), Tail(history))

rebuild_from_history(s, history) ==
    RebuildLoop([s EXCEPT !.turnCount = Max(s.turnCount, Len(history) \div 2)], history)

(***************************************************************************)
(* agent_engine.py                                                         *)
(***************************************************************************)
\* A reply is the line chosen and, for the first friction line, the excuse it embeds.
Line(id) == [line |-> id, excuse |-> ""]

_pick(s, options) ==
    IF options = <<>> THEN Line("")
    ELSE options[((s.personaSeed + s.turnCount + s.repeatIntentCount) % Len(options)) + 1]

_set_intent(s, intent) ==
    IF s.lastIntent = intent
    THEN [s EXCEPT !.repeatIntentCount = @ + 1]
    ELSE [s EXCEPT !.lastIntent = intent, !.repeatIntentCount = 0]

PlaceholderTerms == {"john doe", "jane doe", "test", "demo", "sample", "fake", "beneficiary"}

\* the placeholder terms a word of a name contains, in lower case
LowerTerms(w) == IF w = "Test" THEN {"test"} ELSE {}

\* name is the captured words of a beneficiary name
_looks_placeholder_name(name) ==
    \/ \E i \in 1..Len(name) : LowerTerms(name[i]) \cap PlaceholderTerms # {}
    \/ NameLen(name) < 4

exit_hold_lines == <<Line("hold_0"), Line("hold_1"), Line("hold_2")>>
exit_lines == <<Line("exit_0"), Line("exit_1"), Line("exit_2"), Line("exit_3")>>
benef_real_lines == <<Line("benef_real_0"), Line("benef_real_1"), Line("benef_real_2")>>
link_tactics == <<Line("link_0"), Line("link_1"), Line("link_2"), Line("link_3")>>
upi_tactics == <<Line("upi_0"), Line("upi_1"), Line("upi_2"), Line("upi_3")>>
bank_tactics == <<Line("bank_0"), Line("bank_1"), Line("bank_2"), Line("bank_3")>>
phone_tactics == <<Line("phone_0"), Line("phone_1"), Line("phone_2")>>
hook_lines == <<Line("hook_0"), Line("hook_1"), Line("hook_2")>>
extract_lines == <<Line("extract_0"), Line("extract_1"), Line("extract_2")>>
excuse_candidates == <<"outside_weak_network", "mothers_phone", "upi_app_stuck", "page_not_opening">>
FallbackLine == Line("fallback")
BlandLine == Line("bland")
ResendLine == Line("resend")
ErrorResendLine == Line("error_resend")
NoReply == Line("none")

\* the first excuse of excuse_candidates that _use_excuse_once has not handed out yet
FirstUnusedExcuse(used) ==
    LET free == {i \in 1..Len(excuse_candidates) : ~InSeq(excuse_candidates[i], used)}
    IN IF free = {} THEN ""
       ELSE excuse_candidates[CHOOSE i \in free : \A j \in free : i <= j]

friction_lines(excuse) ==
    <<[line |-> "friction_0", excuse |-> excuse], Line("friction_1"),
      Line("friction_2"), Line("friction_3")>>

verify_probes(s) ==
    (IF s.phishingLinks = <<>> THEN <<Line("probe_link_0"), Line("probe_link_1")>> ELSE <<>>)
    \o (IF s.phoneNumbers = <<>> THEN <<Line("probe_phone_0"), Line("probe_phone_1")>> ELSE <<>>)
    \o (IF s.beneficiaryNames = <<>> THEN <<Line("probe_benef_0")>> ELSE <<>>)
    \o (IF s.ifscCodes = <<>> THEN <<Line("probe_ifsc_0")>> ELSE <<>>)
    \o <<Line("probe_any_0"), Line("probe_any_1"), Line("probe_any_2")>>

\* a branch that records the intent and picks the reply but leaves the stage
Branch_KeepStage(s, stage, intent, pool) ==
    LET s1 == _set_intent(s, intent)
    IN [state |-> s1, reply |-> _pick(s1, pool)]

\* a branch that also counts the turn, as an engine that kept the counter would
Branch_CountsTurn(s, stage, intent, pool) ==
    LET s1 == _set_intent([s EXCEPT !.stage = stage, !.turnCount = @ + 1], intent)
    IN [state |-> s1, reply |-> _pick(s1, pool)]

\* a branch of next_reply: move to stage, record the intent, pick from the pool
Branch(s, stage, intent, pool) ==
    LET s1 == _set_intent([s EXCEPT !.stage = stage], intent)
    IN [state |-> s1, reply |-> _pick(s1, pool)]

\* next_reply without the holding branch: a completed record falls through to the
\* fallback
next_reply_NoHold(s, msg) ==
    LET extracted == extract_all(msg) IN
    IF s.completed
    THEN [state |-> _set_intent([s EXCEPT !.stage = "VERIFY"], "FALLBACK"), reply |-> FallbackLine]
    ELSE IF should_complete(s)
         THEN Branch([s EXCEPT !.completed = TRUE], "EXIT", "EXIT", exit_lines)
    ELSE IF extracted.beneficiaryNames # <<>>
            /\ _looks_placeholder_name(extracted.beneficiaryNames[Len(extracted.beneficiaryNames)])
         THEN Branch(s, "VERIFY", "ASK_BENEF_REAL", benef_real_lines)
    ELSE IF extracted.phishingLinks # <<>>
         THEN Branch(s, "FRICTION", "LINK_FRICTION", link_tactics)
    ELSE IF extracted.upiIds # <<>>
         THEN Branch(s, "VERIFY", "ASK_UPI_DETAILS", upi_tactics)
    ELSE IF extracted.bankAccounts # <<>>
         THEN Branch(s, "VERIFY", "ASK_BANK_IFSC", bank_tactics)
    ELSE IF extracted.phoneNumbers # <<>>
         THEN Branch(s, "VERIFY", "ASK_PHONE_CONFIRM", phone_tactics)
    ELSE IF s.stage = "HOOK"
         THEN Branch(s, "FRICTION", "HOOK_TO_FRICTION", hook_lines)
    ELSE IF s.stage = "FRICTION"
         THEN LET excuse == FirstUnusedExcuse(s.usedExcuses)
                  s1 == IF excuse = "" THEN s
                        ELSE [s EXCEPT !.usedExcuses = Append(@, excuse)]
              IN Branch(s1, "EXTRACT", "FRICTION_TO_EXTRACT", friction_lines(excuse))
    ELSE IF s.stage = "EXTRACT"
         THEN Branch(s, "VERIFY", "EXTRACT_TO_VERIFY", extract_lines)
    ELSE IF s.stage = "VERIFY"
         THEN Branch(s, "VERIFY", "VERIFY_PROBE", verify_probes(s))
    ELSE [state |-> _set_intent([s EXCEPT !.stage = "VERIFY"], "FALLBACK"),
          reply |-> FallbackLine]

\* next_reply that moves to EXIT and leaves completed to the reporter
next_reply_LeavesCompleted(s, msg) ==
    LET extracted == extract_all(msg) IN
    IF s.completed THEN Branch(s, "EXIT", "EXIT", exit_hold_lines)
    ELSE IF should_complete(s)
         THEN Branch(s, "EXIT", "EXIT", exit_lines)
    ELSE IF extracted.beneficiaryNames # <<>>
            /\ _looks_placeholder_name(extracted.beneficiaryNames[Len(extracted.beneficiaryNames)])
         THEN Branch(s, "VERIFY", "ASK_BENEF_REAL", benef_real_lines)
    ELSE IF extracted.phishingLinks # <<>>
         THEN Branch(s, "FRICTION", "LINK_FRICTION", link_tactics)
    ELSE IF extracted.upiIds # <<>>
         THEN Branch(s, "VERIFY", "ASK_UPI_DETAILS", upi_tactics)
    ELSE IF extracted.bankAccounts # <<>>
         THEN Branch(s, "VERIFY", "ASK_BANK_IFSC", bank_tactics)
    ELSE IF extracted.phoneNumbers # <<>>
         THEN Branch(s, "VERIFY", "ASK_PHONE_CONFIRM", phone_tactics)
    ELSE IF s.stage = "HOOK"
         THEN Branch(s, "FRICTION", "HOOK_TO_FRICTION", hook_lines)
    ELSE IF s.stage = "FRICTION"
         THEN LET excuse == FirstUnusedExcuse(s.usedExcuses)
                  s1 == IF excuse = "" THEN s
                        ELSE [s EXCEPT !.usedExcuses = Append(@, excuse)]
              IN Branch(s1, "EXTRACT", "FRICTION_TO_EXTRACT", friction_lines(excuse))
    ELSE IF s.stage = "EXTRACT"
         THEN Branch(s, "VERIFY", "EXTRACT_TO_VERIFY", extract_lines)
    ELSE IF s.stage = "VERIFY"
         THEN Branch(s, "VERIFY", "VERIFY_PROBE", verify_probes(s))
    ELSE [state |-> _set_intent([s EXCEPT !.stage = "VERIFY"], "FALLBACK"),
          reply |-> FallbackLine]

\* next_reply(state, msg_text, history, metadata): the record after the call and the
\* reply returned (the returned updates carry the record's own stage)
next_reply(s, msg) ==
    LET extracted == extract_all(msg) IN
    IF s.completed THEN Branch(s, "EXIT", "EXIT", exit_hold_lines)
    ELSE IF should_complete(s)
         THEN Branch([s EXCEPT !.completed = TRUE], "EXIT", "EXIT", exit_lines)
    ELSE IF extracted.beneficiaryNames # <<>>
            /\ _looks_placeholder_name(extracted.beneficiaryNames[Len(extracted.beneficiaryNames)])
         THEN Branch(s, "VERIFY", "ASK_BENEF_REAL", benef_real_lines)
    ELSE IF extracted.phishingLinks # <<>>
         THEN Branch(s, "FRICTION", "LINK_FRICTION", link_tactics)
    ELSE IF extracted.upiIds # <<>>
         THEN Branch(s, "VERIFY", "ASK_UPI_DETAILS", upi_tactics)
    ELSE IF extracted.bankAccounts # <<>>
         THEN Branch(s, "VERIFY", "ASK_BANK_IFSC", bank_tactics)
    ELSE IF extracted.phoneNumbers # <<>>
         THEN Branch(s, "VERIFY", "ASK_PHONE_CONFIRM", phone_tactics)
    ELSE IF s.stage = "HOOK"
         THEN Branch(s, "FRICTION", "HOOK_TO_FRICTION", hook_lines)
    ELSE IF s.stage = "FRICTION"
         THEN LET excuse == FirstUnusedExcuse(s.usedExcuses)
                  s1 == IF excuse = "" THEN s
                        ELSE [s EXCEPT !.usedExcuses = Append(@, excuse)]
              IN Branch(s1, "EXTRACT", "FRICTION_TO_EXTRACT", friction_lines(excuse))
    ELSE IF s.stage = "EXTRACT"
         THEN Branch(s, "VERIFY", "EXTRACT_TO_VERIFY", extract_lines)
    ELSE IF s.stage = "VERIFY"
         THEN Branch(s, "VERIFY", "VERIFY_PROBE", verify_probes(s))
    ELSE [state |-> _set_intent([s EXCEPT !.stage = "VERIFY"], "FALLBACK"),
          reply |-> FallbackLine]

(***************************************************************************)
(* callback_reporter.py                                                    *)
(***************************************************************************)
\* what requests.post(CALLBACK_URL, json = payload, timeout = 10) can end in
Responses == {"2xx", "non2xx", "exception"}

\* the guards without the test of completed
TrySendGuard_NoCompletedTest(s, urlSet) ==
    IF s.callbackFailures >= 3 THEN "return"
    ELSE IF ~s.scamDetected \/ ~should_complete(s) THEN "return"
    ELSE IF ~urlSet THEN "nourl"
    ELSE "post"

\* the guards without the test of scamDetected
TrySendGuard_NoScamTest(s, urlSet) ==
    IF s.completed \/ s.callbackFailures >= 3 THEN "return"
    ELSE IF ~should_complete(s) THEN "return"
    ELSE IF ~urlSet THEN "nourl"
    ELSE "post"

\* the guards of try_send_final_callback: "return" (no-op), "nourl" (a failure is
\* counted, nothing is sent) or "post" (the payload is built and sent)
TrySendGuard(s, urlSet) ==
    IF s.completed \/ s.callbackFailures >= 3 THEN "return"
    ELSE IF ~s.scamDetected \/ ~should_complete(s) THEN "return"
    ELSE IF ~urlSet THEN "nourl"
    ELSE "post"

\* the response handling that marks the record completed whatever the outcome
TrySendResult_AlwaysCompleted(s, resp) == [s EXCEPT !.completed = TRUE]

\* the record after the response (or the exception) of the POST
TrySendResult(s, resp) ==
    IF resp = "2xx" THEN [s EXCEPT !.completed = TRUE]
    ELSE [s EXCEPT !.callbackFailures = @ + 1]

\* try_send_final_callback(state) as one call that gets the response resp
try_send_final_callback(s, urlSet, resp) ==
    LET g == TrySendGuard(s, urlSet) IN
    IF g = "return" THEN [state |-> s, posted |-> FALSE, ok |-> FALSE]
    ELSE IF g = "nourl"
         THEN [state |-> [s EXCEPT !.callbackFailures = @ + 1], posted |-> FALSE, ok |-> FALSE]
    ELSE [state |-> TrySendResult(s, resp), posted |-> TRUE, ok |-> resp = "2xx"]

(***************************************************************************)
(* app.py: the /honeypot handler on an accepted request, step by step.     *)
(***************************************************************************)
\* abs(hash(session_id)) % 3
Seeds == 0..2

LiveKeys == {"upiIds", "bankAccounts", "phishingLinks", "phoneNumbers"}

\* is_fresh_state(state) and history
Rebuilds(s, history) == is_fresh_state(s) /\ history # <<>>

\* lines 84-91: the record loaded, rebuilt when fresh, and the turn counted
CountTurn(s, history) ==
    LET s1 == IF Rebuilds(s, history) THEN rebuild_from_history(s, history) ELSE s
    IN [s1 EXCEPT !.turnCount = @ + 1]

\* lines 96-110: the extraction of the message merged into the record
MergeLive(s, msg) == MergeKeys(s, extract_all(msg), LiveKeys)

\* classification of every message, whatever the record says
Classify_EveryTurn(s, msg) ==
    LET det == detect_scam(msg) IN
    [s EXCEPT !.scamDetected = det.scamDetected, !.scamType = det.scamType,
              !.suspiciousKeywords = MergeList(@, det.keywords)]

\* line 115: whether the handler calls detect_scam on the message of a request
\* that finds the record s
RunsDetect(s) == ~s.scamDetected

\* lines 115-121: classification, while the record is not a scam yet
Classify(s, msg) ==
    IF ~RunsDetect(s) THEN s
    ELSE LET det == detect_scam(msg) IN
         [s EXCEPT !.scamDetected = det.scamDetected, !.scamType = det.scamType,
                   !.suspiciousKeywords = MergeList(@, det.keywords)]

\* the reply taken from the policy engine whatever the classification
Reply_EngineAlways(s, msg) == next_reply(s, msg)

\* lines 126-132: the reply, from the policy engine for a scam
Reply(s, msg) ==
    IF s.scamDetected THEN next_reply(s, msg) ELSE [state |-> s, reply |-> BlandLine]

\* lines 84-132: the handler up to the reply, on the loaded record s
BeforeCallback(s, msg, history) ==
    Reply(Classify(MergeLive(CountTurn(s, history), msg), msg), msg)

\* lines 84-143 as one call on the loaded record s
honeypot(s, msg, history, urlSet, resp) ==
    LET r == BeforeCallback(s, msg, history)
        c == try_send_final_callback(r.state, urlSet, resp)
    IN [state |-> c.state, reply |-> r.reply, rebuilt |-> Rebuilds(s, history),
        posted |-> c.posted, ok |-> c.ok]

(***************************************************************************)
(* The state.                                                              *)
(*   store        _STORE: the session records by session id                *)
(*   callbackUrl  whether CALLBACK_URL is configured (config.py)           *)
(*   reply        the reply of the last answered request                   *)
(*   posts        per session, the POSTs issued to the collector           *)
(*   delivered    per session, the POSTs answered 2xx                      *)
(*   last         the last answered request: its kind, session, whether it *)
(*                rebuilt the record and, if so, the length of its history *)
(*   reqs         the requests in the worker threads: where each is in the *)
(*                handler, its text and its reply so far                   *)
(*   pool         the requests in the worker threads as a bag, the threads *)
(*                being interchangeable (SpecPool)                         *)
(*   transcript   the texts session "s1" has processed live (SpecRecon,     *)
(*                SpecSubmit)                                               *)
(*   probe        the text sent after the transcript                       *)
(*   phase        "live" while the transcript grows, "rebuilt" once a new  *)
(*                record was rebuilt from it, then "compared"              *)
(*   born         per session key, the personaSeed values load_session has  *)
(*                given the records of the key, over the process lives      *)
(***************************************************************************)
VARIABLES store, callbackUrl, reply, posts, delivered, last, reqs, pool, transcript, probe,
          phase, born

vars == <<store, callbackUrl, reply, posts, delivered, last, reqs, pool, transcript, probe, phase,
          born>>

Reqs == 1..MaxReqs

NoRequest == [kind |-> "none", sid |-> "", rebuilt |-> FALSE, histLen |-> 0]

Idle == [pc |-> "idle", msg |-> <<>>, reply |-> NoReply]

Init ==
    /\ store = [sid \in {} |-> SessionState(sid, 0)]
    /\ callbackUrl = TRUE
    /\ reply = NoReply
    /\ posts = [sid \in SessionIds |-> 0]
    /\ delivered = [sid \in SessionIds |-> 0]
    /\ last = NoRequest
    /\ reqs = [r \in Reqs |-> Idle]
    /\ pool = EmptyBag
    /\ transcript = <<>>
    /\ probe = <<>>
    /\ phase = "live"
    /\ born = [sid \in SessionIds |-> {}]

\* the seeds given to the records of each key, with those of the records of st
Born(b, st) ==
    [sid \in SessionIds |-> b[sid] \cup (IF sid \in DOMAIN st THEN {st[sid].personaSeed} ELSE {})]

\* load_session: the record of sid, created with seed on first reference
load_session(st, sid, seed) == IF sid \in DOMAIN st THEN st[sid] ELSE SessionState(sid, seed)

\* the seeds load_session can give sid
SeedsOf(st, sid) == IF sid \in DOMAIN st THEN {st[sid].personaSeed} ELSE Seeds

\* save_session
save_session(st, s) ==
    [sid \in DOMAIN st \cup {s.sessionId} |-> IF sid = s.sessionId THEN s ELSE st[sid]]

\* the answers the collector can give to the POSTs try_send_final_callback issues
ResponsesTo(s, urlSet) == IF TrySendGuard(s, urlSet) = "post" THEN Responses ELSE {"none"}

\* The /honeypot handler on an accepted request (session id sid, text msg,
\* conversationHistory history), from load_session to save_session
Handle(sid, msg, history) ==
    \E seed \in SeedsOf(store, sid) :
        LET s0 == load_session(store, sid, seed)
            r == BeforeCallback(s0, msg, history)
        IN /\ r.state.turnCount <= MaxTurns
           /\ \E resp \in ResponsesTo(r.state, callbackUrl) :
                LET c == try_send_final_callback(r.state, callbackUrl, resp) IN
                /\ store' = save_session(store, c.state)
                /\ reply' = r.reply
                /\ posts' = [posts EXCEPT ![sid] = @ + (IF c.posted THEN 1 ELSE 0)]
                /\ delivered' = [delivered EXCEPT ![sid] = @ + (IF c.ok THEN 1 ELSE 0)]
                /\ last' = [kind |-> "accepted", sid |-> sid,
                            rebuilt |-> Rebuilds(s0, history),
                            histLen |-> IF Rebuilds(s0, history) THEN Len(history) ELSE 0]
                /\ born' = Born(born, store')
                /\ UNCHANGED <<callbackUrl, pool, reqs>>

\* the handler reads conversationHistory only when the loaded record is fresh
HistoriesRead(st, sid) ==
    IF sid \in DOMAIN st /\ ~is_fresh_state(st[sid]) THEN {H_none} ELSE TurnHistories

(***************************************************************************)
(* Spec: the requests of one session arrive one after the other and each   *)
(* is handled from start to end.                                           *)
(***************************************************************************)
\* POST /honeypot with a session id and a non-empty text
Honeypot(sid, msg) ==
    /\ \E history \in HistoriesRead(store, sid) : Handle(sid, msg, history)
    /\ UNCHANGED <<transcript, probe, phase>>

\* the validation of lines 75-79 placed after load_session and save_session
Malformed_AfterLoad(why) ==
    /\ reply' = IF why = "not_dict" THEN ErrorResendLine ELSE ResendLine
    /\ last' = [kind |-> "malformed", sid |-> "", rebuilt |-> FALSE, histLen |-> 0]
    /\ \E seed \in SeedsOf(store, "s2") :
         store' = IF why = "empty_text"
                  THEN save_session(store, load_session(store, "s2", seed))
                  ELSE store
    /\ born' = Born(born, store')
    /\ UNCHANGED <<callbackUrl, pool, posts, delivered, reqs, transcript, probe, phase>>

\* POST /honeypot with a body that is no object, no session id or an empty text
Malformed(why) ==
    /\ reply' = IF why = "not_dict" THEN ErrorResendLine ELSE ResendLine
    /\ last' = [kind |-> "malformed", sid |-> "", rebuilt |-> FALSE, histLen |-> 0]
    /\ UNCHANGED <<store, callbackUrl, born, pool, posts, delivered, reqs,
                 transcript, probe, phase>>

Next ==
    \/ \E msg \in TurnMessages : Honeypot("s1", msg)
    \/ \E why \in {"not_dict", "no_session", "empty_text"} : Malformed(why)

Spec == Init /\ [][Next]_vars

(***************************************************************************)
(* SpecRecon: session "s1" processes a transcript live; then the same      *)
(* next text is sent to a new session "s2" with the transcript as its      *)
(* conversationHistory, and to "s1".  The history carries both sides, as   *)
(* rebuild_from_history counts it (len(history) // 2 turns): each text of  *)
(* the transcript is followed by the reply it got.                         *)
(***************************************************************************)
\* the conversationHistory of a transcript: each text, then our reply to it
RECURSIVE WithReplies(_)
WithReplies(t) == IF t = <<>> THEN <<>> ELSE <<Head(t), M_ok>> \o WithReplies(Tail(t))

LiveTurn(msg) ==
    /\ phase = "live"
    /\ Len(transcript) < MaxTranscript
    /\ Handle("s1", msg, H_none)
    /\ transcript' = Append(transcript, msg)
    /\ UNCHANGED <<probe, phase>>

Reconstruct(msg) ==
    /\ phase = "live"
    /\ Handle("s2", msg, WithReplies(transcript))
    /\ probe' = msg
    /\ phase' = "rebuilt"
    /\ UNCHANGED transcript

LiveProbe ==
    /\ phase = "rebuilt"
    /\ Handle("s1", probe, H_none)
    /\ phase' = "compared"
    /\ UNCHANGED <<transcript, probe>>

NextRecon ==
    \/ \E msg \in Messages : LiveTurn(msg)
    \/ \E msg \in Messages : Reconstruct(msg)
    \/ LiveProbe

SpecRecon == Init /\ [][NextRecon]_vars

(***************************************************************************)
(* SpecConc: the handler is a plain def, which FastAPI runs in a pool of   *)
(* worker threads; the requests of one session share the record that      *)
(* load_session returns and no lock is taken.  A request runs in five      *)
(* steps, each atomic here (the threads can interleave more finely).       *)
(***************************************************************************)
ConcMessages == {M_otp}

ConcHistories == {H_talk}

At(r, pc) == reqs[r].pc = pc

\* lines 84-121: load, rebuild, count the turn, merge, classify
Begin(r, sid, msg, history) ==
    /\ At(r, "idle")
    /\ \E seed \in SeedsOf(store, sid) :
         LET s == Classify(MergeLive(CountTurn(load_session(store, sid, seed), history), msg), msg)
         IN /\ s.turnCount <= MaxTurns
            /\ store' = save_session(store, s)
    /\ reqs' = [reqs EXCEPT ![r] = [pc |-> "reply", msg |-> msg, reply |-> NoReply]]
    /\ born' = Born(born, store')
    /\ UNCHANGED <<callbackUrl, pool, reply, posts, delivered, last,
                 transcript, probe, phase>>

\* lines 126-132: the reply
ReplyStep(r, sid) ==
    /\ At(r, "reply")
    /\ LET rr == Reply(store[sid], reqs[r].msg) IN
       /\ store' = [store EXCEPT ![sid] = rr.state]
       /\ reqs' = [reqs EXCEPT ![r].pc = "callback", ![r].reply = rr.reply]
    /\ UNCHANGED <<callbackUrl, born, pool, reply, posts, delivered, last,
                 transcript, probe, phase>>

\* callback_reporter.py lines 14-32: the guards, and the POST sent
CallbackGuard(r, sid) ==
    /\ At(r, "callback")
    /\ LET g == TrySendGuard(store[sid], callbackUrl) IN
       /\ store' = IF g = "nourl" THEN [store EXCEPT ![sid].callbackFailures = @ + 1] ELSE store
       /\ reqs' = [reqs EXCEPT ![r].pc = IF g = "post" THEN "posting" ELSE "save"]
       /\ posts' = [posts EXCEPT ![sid] = @ + (IF g = "post" THEN 1 ELSE 0)]
    /\ UNCHANGED <<callbackUrl, born, pool, reply, delivered, last, transcript, probe, phase>>

\* callback_reporter.py lines 32-61: the response, the exception or the timeout
Respond(r, sid, resp) ==
    /\ At(r, "posting")
    /\ store' = [store EXCEPT ![sid] = TrySendResult(@, resp)]
    /\ delivered' = [delivered EXCEPT ![sid] = @ + (IF resp = "2xx" THEN 1 ELSE 0)]
    /\ reqs' = [reqs EXCEPT ![r].pc = "save"]
    /\ UNCHANGED <<callbackUrl, born, pool, reply, posts, last, transcript, probe, phase>>

\* lines 140-143: save_session and the answer
Save(r, sid) ==
    /\ At(r, "save")
    /\ reply' = reqs[r].reply
    /\ last' = [kind |-> "accepted", sid |-> sid, rebuilt |-> FALSE, histLen |-> 0]
    /\ reqs' = [reqs EXCEPT ![r] = Idle]
    /\ UNCHANGED <<store, callbackUrl, born, pool, posts, delivered, transcript, probe, phase>>

NextConc ==
    \/ \E r \in Reqs, msg \in ConcMessages, history \in ConcHistories :
          Begin(r, "s1", msg, history)
    \/ \E r \in Reqs : ReplyStep(r, "s1")
    \/ \E r \in Reqs : CallbackGuard(r, "s1")
    \/ \E r \in Reqs, resp \in Responses : Respond(r, "s1", resp)
    \/ \E r \in Reqs : Save(r, "s1")

SpecConc == Init /\ [][NextConc]_vars

(***************************************************************************)
(* SpecPool: the worker threads of SpecConc as a bag of requests in        *)
(* flight, each with its place in the handler and its text.  The steps are *)
(* those of SpecConc, with save_session and the answer joined to the step  *)
(* before them: save_session stores the shared record under its own key.   *)
(* The reply of a request is a local of its thread; it is recorded in      *)
(* reply when it is computed and returned when the request is answered.    *)
(***************************************************************************)
PoolHistories == {H_chat}

InFlight(pc, msg) == [pc |-> pc, msg |-> msg]

\* the bag with one request q moved to the place pc
Moved(q, pc) == (pool (-) SetToBag({q})) (+) SetToBag({InFlight(pc, q.msg)})

\* lines 140-143 for the request q: the record is saved and q is answered
Answered(q, sid) ==
    /\ pool' = pool (-) SetToBag({q})
    /\ last' = [kind |-> "accepted", sid |-> sid, rebuilt |-> FALSE, histLen |-> 0]

\* lines 84-121: load, rebuild, count the turn, merge, classify
PoolBegin(sid, msg, history) ==
    /\ BagCardinality(pool) < MaxPool
    /\ \E seed \in SeedsOf(store, sid) :
         LET s == Classify(MergeLive(CountTurn(load_session(store, sid, seed), history), msg), msg)
         IN /\ s.turnCount <= MaxTurns
            /\ store' = save_session(store, s)
    /\ pool' = pool (+) SetToBag({InFlight("reply", msg)})
    /\ born' = Born(born, store')
    /\ UNCHANGED <<callbackUrl, reply, posts, delivered, last, reqs, transcript, probe, phase>>

\* lines 126-132: the reply
PoolReply(q, sid) ==
    /\ BagIn(q, pool) /\ q.pc = "reply"
    /\ LET rr == Reply(store[sid], q.msg) IN
       /\ store' = [store EXCEPT ![sid] = rr.state]
       /\ reply' = rr.reply
       /\ pool' = Moved(q, "callback")
    /\ UNCHANGED <<callbackUrl, born, posts, delivered, last, reqs, transcript, probe, phase>>

\* callback_reporter.py lines 14-32: the guards pass and the POST is sent
PoolPost(q, sid) ==
    /\ BagIn(q, pool) /\ q.pc = "callback"
    /\ TrySendGuard(store[sid], callbackUrl) = "post"
    /\ posts' = [posts EXCEPT ![sid] = @ + 1]
    /\ pool' = Moved(q, "posting")
    /\ UNCHANGED <<store, callbackUrl, born, reply, delivered, last, reqs, transcript, probe, phase>>

\* callback_reporter.py lines 14-26: a guard returns, and the request is answered
PoolSkip(q, sid) ==
    /\ BagIn(q, pool) /\ q.pc = "callback"
    /\ TrySendGuard(store[sid], callbackUrl) # "post"
    /\ store' = IF TrySendGuard(store[sid], callbackUrl) = "nourl"
                THEN [store EXCEPT ![sid].callbackFailures = @ + 1] ELSE store
    /\ Answered(q, sid)
    /\ UNCHANGED <<callbackUrl, born, reply, posts, delivered, reqs, transcript, probe, phase>>

\* callback_reporter.py lines 32-61: the response, the exception or the timeout,
\* and the request is answered
PoolRespond(q, sid, resp) ==
    /\ BagIn(q, pool) /\ q.pc = "posting"
    /\ store' = [store EXCEPT ![sid] = TrySendResult(@, resp)]
    /\ delivered' = [delivered EXCEPT ![sid] = @ + (IF resp = "2xx" THEN 1 ELSE 0)]
    /\ Answered(q, sid)
    /\ UNCHANGED <<callbackUrl, born, reply, posts, reqs, transcript, probe, phase>>

NextPool ==
    \/ \E msg \in ConcMessages, history \in PoolHistories : PoolBegin("s1", msg, history)
    \/ \E q \in BagToSet(pool) : PoolReply(q, "s1")
    \/ \E q \in BagToSet(pool) : PoolPost(q, "s1")
    \/ \E q \in BagToSet(pool) : PoolSkip(q, "s1")
    \/ \E q \in BagToSet(pool), resp \in Responses : PoolRespond(q, "s1", resp)

SpecPool == Init /\ [][NextPool]_vars

(***************************************************************************)
(* SpecSubmit: the application of app_submit.py, whose /honeypot handler   *)
(* shares the session store, the extractor, the detector, the policy      *)
(* engine and the reporter with app.py's.                                  *)
(***************************************************************************)
SubmitBlandLine == Line("submit_bland")

\* app_submit.py lines 61-70: the reply; stage and turnCount are taken from the
\* updates of next_reply, which carry no turnCount
SubmitReply(s, msg) ==
    IF s.scamDetected THEN next_reply(s, msg) ELSE [state |-> s, reply |-> SubmitBlandLine]

\* app_submit.py lines 34-78: a request with a session id and a text
Submit(sid, msg) ==
    /\ Len(transcript) < MaxTranscript
    /\ transcript' = Append(transcript, msg)
    /\ \E seed \in SeedsOf(store, sid) :
         LET s0 == load_session(store, sid, seed)
             r == SubmitReply(Classify(MergeLive(s0, msg), msg), msg)
         IN \E resp \in ResponsesTo(r.state, callbackUrl) :
              LET c == try_send_final_callback(r.state, callbackUrl, resp) IN
              /\ store' = save_session(store, c.state)
              /\ reply' = r.reply
              /\ posts' = [posts EXCEPT ![sid] = @ + (IF c.posted THEN 1 ELSE 0)]
              /\ delivered' = [delivered EXCEPT ![sid] = @ + (IF c.ok THEN 1 ELSE 0)]
    /\ last' = [kind |-> "accepted", sid |-> sid, rebuilt |-> FALSE, histLen |-> 0]
    /\ born' = Born(born, store')
    /\ UNCHANGED <<callbackUrl, pool, reqs, probe, phase>>

\* app_submit.py lines 20-27: a body without sessionId or message.text, answered 400
SubmitInvalid ==
    /\ reply' = NoReply
    /\ last' = [kind |-> "malformed", sid |-> "", rebuilt |-> FALSE, histLen |-> 0]
    /\ UNCHANGED <<store, callbackUrl, born, pool, posts, delivered, reqs,
                 transcript, probe, phase>>

NextSubmit ==
    \/ \E msg \in Messages : Submit("s1", msg)
    \/ SubmitInvalid

SpecSubmit == Init /\ [][NextSubmit]_vars

(***************************************************************************)
(* SpecLife: the process that holds _STORE ends and a new one starts, any  *)
(* number of times; the requests of session "s1" are handled one after the *)
(* other by the process that runs.  load_session computes the seed as      *)
(* abs(hash(session_id)) % 3, and the hash of a str is salted anew in each *)
(* Python process, so a new process may give the key any seed.             *)
(***************************************************************************)
LifeMessages == {M_otp, M_link}

LifeHistories == {H_none, H_short}

\* POST /honeypot in the running process, in a conversation of up to MaxLife turns
LifeTurn(sid, msg) ==
    /\ \E history \in IF sid \in DOMAIN store THEN {H_none} ELSE LifeHistories :
         Handle(sid, msg, history)
    /\ store'[sid].turnCount <= MaxLife
    /\ UNCHANGED <<transcript, probe, phase>>

\* the process ends and a new one starts with an empty _STORE
Restart ==
    /\ DOMAIN store # {}
    /\ store' = [sid \in {} |-> SessionState(sid, 0)]
    /\ UNCHANGED <<callbackUrl, born, reply, posts, delivered, last, reqs, pool,
                 transcript, probe, phase>>

NextLife ==
    \/ \E msg \in LifeMessages : LifeTurn("s1", msg)
    \/ Restart

SpecLife == Init /\ [][NextLife]_vars

(***************************************************************************)
(* The claims.                                                             *)
(***************************************************************************)
TurnCountOf(st, sid) == IF sid \in DOMAIN st THEN st[sid].turnCount ELSE 0

\* C1: every scam session whose turnCount has reached 18 has had its report
\* POSTed to the collector at least once (CALLBACK_URL being configured).
C1_ReportAttemptedByTurn18 ==
    \A sid \in DOMAIN store :
        (callbackUrl /\ store[sid].scamDetected /\ store[sid].turnCount >= 18)
            => posts[sid] >= 1

\* C2: once completed is true, a call of try_send_final_callback issues no POST
\* and leaves the record as it is, and no later request of the session issues a
\* POST, resets completed or changes callbackFailures.
C2_AtMostOnceDelivery ==
    [][\A sid \in DOMAIN store :
         store[sid].completed =>
            /\ \A resp \in Responses :
                 try_send_final_callback(store[sid], callbackUrl, resp)
                    = [state |-> store[sid], posted |-> FALSE, ok |-> FALSE]
            /\ posts'[sid] = posts[sid]
            /\ store'[sid].completed
            /\ store'[sid].callbackFailures = store[sid].callbackFailures]_vars

\* a later turn of a completed session has been answered with a holding line
C2_Witness ==
    \E sid \in DOMAIN store :
        /\ store[sid].completed
        /\ last.kind = "accepted"
        /\ reply \in Range(exit_hold_lines)

\* C3: completed is true only if a POST of the session was answered 2xx, and
\* next_reply never changes completed.
C3_CompletedOnlyAfter2xx ==
    \A sid \in DOMAIN store :
        /\ store[sid].completed => delivered[sid] >= 1
        /\ \A msg \in TurnMessages :
              next_reply(store[sid], msg).state.completed = store[sid].completed

\* C4: no two requests of one session are both past the guard of
\* try_send_final_callback with their POST sent.
C4_NoTwoDeliveriesAtOnce ==
    \A r1, r2 \in Reqs : r1 # r2 => ~(At(r1, "posting") /\ At(r2, "posting"))

\* C5: every accepted request leaves turnCount of its session one higher than it
\* was, the request that rebuilds the record included.
C5_TurnCountPlusOneAlways ==
    [][last'.kind = "accepted"
         => TurnCountOf(store', last'.sid) = TurnCountOf(store, last'.sid) + 1]_vars

\* the fields of the session record the reconstruction is compared on
SameRecord(a, b) ==
    /\ a.turnCount = b.turnCount
    /\ \A k \in IntelKeys : a[k] = b[k]
    /\ a.scamDetected = b.scamDetected
    /\ a.scamType = b.scamType
    /\ a.stage = b.stage

\* C6: the record rebuilt from the transcript and then given the next text equals
\* the record that processed the transcript and the next text live.
C6_ReconstructionEquivalence ==
    phase = "compared" => SameRecord(store["s1"], store["s2"])

\* C7: each of the six lists of the live session holds every value extract_all
\* returned in its category for a processed text, and holds no value twice.
C7_CumulativeIntelligence ==
    "s1" \in DOMAIN store =>
        \A k \in IntelKeys :
            /\ NoDup(store["s1"][k])
            /\ \A i \in 1..Len(transcript) :
                  Range(extract_all(transcript[i])[k]) \subseteq Range(store["s1"][k])

\* C8: merging an extraction result twice, by the live merge or by the merge of
\* rebuild_from_history, gives the lists that merging it once gives.
C8_MergeIdempotent ==
    \A sid \in DOMAIN store : \A msg \in Messages :
        LET e == extract_all(msg) IN
        /\ MergeKeys(MergeKeys(store[sid], e, LiveKeys), e, LiveKeys)
              = MergeKeys(store[sid], e, LiveKeys)
        /\ MergeKeys(MergeKeys(store[sid], e, IntelKeys), e, IntelKeys)
              = MergeKeys(store[sid], e, IntelKeys)

\* a link seen in two texts is held once, before the link that came with it later
C8_Witness ==
    /\ transcript = <<M_link, M_link2>>
    /\ "s1" \in DOMAIN store
    /\ store["s1"].phishingLinks = <<"http://bit.ly/x1", "http://sbi-pay.in/v">>

\* the escalating schedule, on the number of non-empty categories and the turn
Schedule(categories, turn) ==
    \/ categories >= 3 /\ turn >= 10
    \/ categories >= 2 /\ turn >= 12
    \/ categories >= 1 /\ turn >= 16
    \/ turn >= 18

\* C9: with the lists of a session as they are, should_complete is the schedule
\* at every turn, and it stays true at every later turn once it is true.
C9_ShouldCompleteSchedule ==
    \A sid \in DOMAIN store :
        LET s == store[sid] IN
        /\ \A t \in 0..(MaxTurns + 1) :
              should_complete([s EXCEPT !.turnCount = t]) <=> Schedule(Categories(s), t)
        /\ \A t \in 0..(MaxTurns + 1) : \A u \in t..(MaxTurns + 1) :
              should_complete([s EXCEPT !.turnCount = t])
                 => should_complete([s EXCEPT !.turnCount = u])

\* two categories at turn 12: the second rule of the schedule has just fired
C9_Witness ==
    \E sid \in DOMAIN store :
        /\ Categories(store[sid]) = 2
        /\ store[sid].turnCount = 12
        /\ should_complete(store[sid])

\* C10: once should_complete is true of a session it is true after every later
\* request; turnCount never decreases and no non-empty list becomes empty.
C10_ShouldCompleteStays ==
    [][\A sid \in DOMAIN store :
         /\ should_complete(store[sid]) => should_complete(store'[sid])
         /\ store'[sid].turnCount >= store[sid].turnCount
         /\ \A k \in IntelKeys : store[sid][k] # <<>> => store'[sid][k] # <<>>]_vars

\* two turns after the second rule fired, with the same two categories
C10_Witness ==
    \E sid \in DOMAIN store :
        /\ Categories(store[sid]) = 2
        /\ store[sid].turnCount = 14
        /\ should_complete(store[sid])
        /\ store[sid].stage = "EXIT"

\* C11: on a record that is no scam or whose should_complete is false,
\* try_send_final_callback issues no POST and leaves the record as it is, whatever
\* the collector would answer; and a session that is no scam has had no POST.
C11_NoOpUnlessScamAndComplete ==
    \A sid \in DOMAIN store :
        LET s == store[sid] IN
        /\ (~s.scamDetected \/ ~should_complete(s)) =>
              \A urlSet \in BOOLEAN : \A resp \in Responses :
                 try_send_final_callback(s, urlSet, resp)
                    = [state |-> s, posted |-> FALSE, ok |-> FALSE]
        /\ ~s.scamDetected => (posts[sid] = 0 /\ delivered[sid] = 0)

\* a session that is no scam has been answered at a turn where should_complete is
\* true, and nothing was sent
C11_Witness ==
    /\ last.kind = "accepted"
    /\ "s1" \in DOMAIN store
    /\ ~store["s1"].scamDetected
    /\ should_complete(store["s1"])
    /\ reply = BlandLine
    /\ posts["s1"] = 0

\* C12: callbackFailures of a session is between 0 and 3 and never decreases, and
\* once it is 3 no POST is issued for the session.
C12_BoundedRetry ==
    [][\A sid \in DOMAIN store :
         /\ store[sid].callbackFailures \in 0..3
         /\ store'[sid].callbackFailures \in 0..3
         /\ store'[sid].callbackFailures >= store[sid].callbackFailures
         /\ store[sid].callbackFailures = 3 => posts'[sid] = posts[sid]]_vars

\* the POSTs of the session's requests that wait for their answer
PostsInFlight(b) == CopiesIn(InFlight("posting", M_otp), b)

StageRank(stage) ==
    CASE stage = "HOOK" -> 1 [] stage = "FRICTION" -> 2 [] stage = "EXTRACT" -> 3
      [] stage = "VERIFY" -> 4 [] OTHER -> 5

\* C14: from one request of a session to the next its stage never moves backwards
\* in the order HOOK < FRICTION < EXTRACT < VERIFY; the only other change is the
\* jump to EXIT, which is never left.
C14_StageMonotone ==
    [][\A sid \in DOMAIN store :
         \/ store'[sid].stage = "EXIT"
         \/ /\ store[sid].stage # "EXIT"
            /\ StageRank(store'[sid].stage) >= StageRank(store[sid].stage)]_vars

\* the texts that yield no entity
PlainTexts == {msg \in Messages \cup {M_ok} : \A k \in IntelKeys : extract_all(msg)[k] = <<>>}

\* the records a request can load: those of the store and a new one
RecordsNow == {store[sid] : sid \in DOMAIN store} \cup {SessionState("s1", seed) : seed \in Seeds}

\* the default progression of the stages
Progress(stage) ==
    CASE stage = "HOOK" -> "FRICTION" [] stage = "FRICTION" -> "EXTRACT"
      [] stage = "EXTRACT" -> "VERIFY" [] OTHER -> stage

\* C15: a request with a text that yields no entity moves the session, a new one
\* included, from HOOK to FRICTION, from FRICTION to EXTRACT, from EXTRACT to
\* VERIFY, and leaves it at VERIFY, as long as should_complete is false at that turn.
C15_DefaultProgression ==
    \A s \in RecordsNow : \A msg \in PlainTexts :
        LET t == BeforeCallback(s, msg, H_none).state IN
        ~should_complete(t) => t.stage = Progress(s.stage)

\* C16: once a scam session is at stage EXIT, its stage is EXIT after every later
\* request and every later reply to it is an exit line or a holding line.
C16_ExitAbsorbing ==
    [][\A sid \in DOMAIN store :
         (store[sid].scamDetected /\ store[sid].stage = "EXIT") =>
            /\ store'[sid].stage = "EXIT"
            /\ (last'.kind = "accepted" /\ last'.sid = sid) =>
                  reply' \in Range(exit_lines) \cup Range(exit_hold_lines)]_vars

\* a session at EXIT has been sent a link and answered with a holding line, its
\* stage still EXIT
C16_Witness ==
    /\ "s1" \in DOMAIN store
    /\ store["s1"].stage = "EXIT"
    /\ store["s1"].lastIntent = "EXIT"
    /\ store["s1"].repeatIntentCount >= 1
    /\ store["s1"].turnCount = 19
    /\ store["s1"].phishingLinks = <<"http://bit.ly/x1">>
    /\ store["s1"].phoneNumbers = <<>>
    /\ reply \in Range(exit_hold_lines)

\* C17: once scamDetected is true of a session it stays true, and scamType does
\* not change after that.
C17_ScamDetectedOnce ==
    [][\A sid \in DOMAIN store :
         store[sid].scamDetected =>
            /\ store'[sid].scamDetected
            /\ store'[sid].scamType = store[sid].scamType]_vars

\* a session classified on "otp" has then received a link, which alone would be
\* classified as phishing, and is still of type bank_kyc
C17_Witness ==
    /\ "s1" \in DOMAIN store
    /\ store["s1"].turnCount = 2
    /\ store["s1"].scamDetected
    /\ store["s1"].scamType = "bank_kyc"
    /\ store["s1"].lastIntent = "LINK_FRICTION"
    /\ detect_scam(M_link).scamType = "phishing"

\* C18: detect_scam is called on at most one message of a session.  The first
\* request of a session finds scamDetected false and calls it, so that no later
\* request may: a request to a session of the store does not call detect_scam.
C18_ClassifiedAtMostOnce ==
    \A sid \in DOMAIN store : ~RunsDetect(store[sid])

\* no account is a phone number or "91" followed by a phone number
Disambiguated(phones, banks) ==
    \A i \in 1..Len(banks) :
        /\ ~InSeq(banks[i], phones)
        /\ \A j \in 1..Len(phones) : banks[i] # Prefix91(phones[j])

\* C19: no value is in bankAccounts and in phoneNumbers, and no value of
\* bankAccounts is "91" followed by a value of phoneNumbers: in the result of
\* every extract_all call, in the lists of every session, and in the lists after
\* one more text is merged, by the live merge or by that of rebuild_from_history.
C19_PhoneAccountDisambiguation ==
    /\ \A msg \in Messages \cup DigitTexts :
          Disambiguated(extract_all(msg).phoneNumbers, extract_all(msg).bankAccounts)
    /\ \A sid \in DOMAIN store :
          /\ Disambiguated(store[sid].phoneNumbers, store[sid].bankAccounts)
          /\ \A msg \in Messages \cup DigitTexts : \A ks \in {LiveKeys, IntelKeys} :
                LET t == MergeKeys(store[sid], extract_all(msg), ks)
                IN Disambiguated(t.phoneNumbers, t.bankAccounts)

\* a session saw a phone number, then an account; "91" and the phone number in
\* groups, sent next, would add no account
C19_Witness ==
    /\ transcript = <<M_phone, M_acct>>
    /\ "s1" \in DOMAIN store
    /\ store["s1"].phoneNumbers = <<<<9,8,7,6,5,4,3,2,1,0>>>>
    /\ store["s1"].bankAccounts = <<<<1,2,3,4,5,6,7,8,9,0,1,2>>>>
    /\ DigitsOnly(D_spaced.groups) = Prefix91(store["s1"].phoneNumbers[1])
    /\ MergeLive(store["s1"], M_spaced).bankAccounts = store["s1"].bankAccounts

\* C20: the totalMessagesExchanged of the report payload grows with turnCount:
\* whenever a step raises the turnCount of a session, the payload built from the
\* session afterwards carries a larger totalMessagesExchanged than the one built
\* before.
C20_TotalGrowsWithTurnCount ==
    [][\A sid \in DOMAIN store \cap DOMAIN store' :
         store'[sid].turnCount > store[sid].turnCount
           => build_callback_payload(store'[sid]).totalMessagesExchanged
                > build_callback_payload(store[sid]).totalMessagesExchanged]_vars

\* C21: a request without a session id or with a text that is empty after
\* trimming creates no session record, changes no session record, issues no
\* delivery attempt and is answered with the resend line; so is, with its own
\* resend line, a request whose body is no object.
C21_MalformedNeverReachesCore ==
    [][/\ last'.kind = "malformed" =>
            /\ store' = store
            /\ posts' = posts
            /\ delivered' = delivered
            /\ reply' \in {ResendLine, ErrorResendLine}
       /\ \A why \in {"no_session", "empty_text"} : Malformed(why) => reply' = ResendLine]_vars

\* a request with an empty text was answered after session "s1" counted turns,
\* and no other session exists
C21_Witness ==
    /\ last.kind = "malformed"
    /\ reply = ResendLine
    /\ DOMAIN store = {"s1"}
    /\ store["s1"].turnCount >= 2
    /\ store["s1"].scamDetected

\* C22: the policy engine never modifies turnCount: for every record of the
\* store and every text, the record after next_reply has the turnCount it
\* had before, and so has the record after step 3 of the handler, which takes
\* only the stage from the engine's updates.
C22_EngineKeepsTurnCount ==
    \A sid \in DOMAIN store : \A msg \in Messages :
        /\ next_reply(store[sid], msg).state.turnCount = store[sid].turnCount
        /\ Reply(store[sid], msg).state.turnCount = store[sid].turnCount

\* the engine has replied to a scam session three turns old, and on the next text
\* it changes the stage and the intent of the record
C22_Witness ==
    /\ "s1" \in DOMAIN store
    /\ store["s1"].scamDetected
    /\ store["s1"].turnCount = 3
    /\ store["s1"].lastIntent # ""
    /\ \E msg \in Messages :
         /\ next_reply(store["s1"], msg).state.stage # store["s1"].stage
         /\ next_reply(store["s1"], msg).state.lastIntent # store["s1"].lastIntent

\* the record next_reply is called on when the record s is loaded for text msg
\* (no history read), and whether the terminal checks let it pass
SeenByEngine(s, msg) == Classify(MergeLive(CountTurn(s, H_none), msg), msg)

PastTerminalChecks(s) == s.scamDetected /\ ~s.completed /\ ~should_complete(s)

DefaultIntents == {"HOOK_TO_FRICTION", "FRICTION_TO_EXTRACT", "EXTRACT_TO_VERIFY", "VERIFY_PROBE"}

YieldsPlaceholder(msg) ==
    LET names == extract_all(msg).beneficiaryNames
    IN names # <<>> /\ _looks_placeholder_name(names[Len(names)])

C24_NoSameLineTwice ==
    [][(phase = "live" /\ transcript # <<>>) =>
         LET prev == store["s1"]
             cur == IF phase' = "live" THEN store'["s1"] ELSE store'["s2"]
         IN (prev.scamDetected /\ cur.scamDetected /\ cur.lastIntent = prev.lastIntent)
              => reply' # reply]_vars

\* C25: personaSeed is a function of the session key: the seed of a record
\* never changes while the record lives, and every record created for a key,
\* in whatever process life, gets the same seed.
C25_PersonaSeedOfKey ==
    [][\A sid \in SessionIds :
         /\ (sid \in DOMAIN store /\ sid \in DOMAIN store')
              => store'[sid].personaSeed = store[sid].personaSeed
         /\ Cardinality(born'[sid]) <= 1]_vars

\* C26: when the requests of a session are handled one after the other, stage
\* is EXIT exactly when completed is true, and the final fallback branch of
\* next_reply is never taken.
C26_ExitIffCompleted ==
    \A sid \in DOMAIN store :
        /\ (store[sid].stage = "EXIT") <=> store[sid].completed
        /\ store[sid].lastIntent # "FALLBACK"
        /\ reply # FallbackLine

\* a session that completed, at EXIT, two turns after the completion
C26_Witness ==
    /\ "s1" \in DOMAIN store
    /\ store["s1"].completed
    /\ store["s1"].stage = "EXIT"
    /\ store["s1"].lastIntent = "EXIT"
    /\ store["s1"].repeatIntentCount >= 2

\* C27: reconstruction runs at most once per record and only before its first
\* turn is counted: after any accepted message no record is fresh; a request
\* that finds its record in the store counts one turn and leaves the lists
\* that only rebuild_from_history fills; and a request that rebuilds created
\* its record and carried a history.
C27_RebuildOnceBeforeFirstTurn ==
    [][/\ \A sid \in DOMAIN store' : ~is_fresh_state(store'[sid])
       /\ \A sid \in DOMAIN store :
            store'[sid] # store[sid] =>
              /\ store'[sid].turnCount = store[sid].turnCount + 1
              /\ store'[sid].ifscCodes = store[sid].ifscCodes
              /\ store'[sid].beneficiaryNames = store[sid].beneficiaryNames
       /\ (store' # store /\ last'.rebuilt) =>
            (last'.sid \notin DOMAIN store /\ last'.histLen > 0)]_vars

\* a session whose first request rebuilt the record from a history of 20 entries
\* and whose next request counted turn 12 without a rebuild
C27_Witness ==
    /\ "s1" \in DOMAIN store
    /\ store["s1"].turnCount = 12
    /\ store["s1"].ifscCodes # <<>>
    /\ last.kind = "accepted"
    /\ ~last.rebuilt

\* the fields an accepted message may change in a session not classified a scam
NonScamMayChange ==
    {"turnCount", "upiIds", "bankAccounts", "phishingLinks", "phoneNumbers", "ifscCodes",
     "beneficiaryNames", "suspiciousKeywords", "scamType"}

\* C28: an accepted message after which the session is not classified a scam
\* leaves stage (HOOK), lastIntent, repeatIntentCount, usedExcuses, completed and
\* callbackFailures as they were, issues no POST and returns the bland reply;
\* only turnCount, the intelligence lists and scamType may change.
C28_NonScamFrame ==
    [][(store' # store /\ last'.kind = "accepted" /\ ~store'[last'.sid].scamDetected) =>
         LET sid == last'.sid
             new == store'[sid]
             old == IF sid \in DOMAIN store THEN store[sid]
                    ELSE SessionState(sid, new.personaSeed)
         IN /\ \A f \in DOMAIN new \ NonScamMayChange : new[f] = old[f]
            /\ new.stage = "HOOK"
            /\ new.lastIntent = "" /\ new.repeatIntentCount = 0 /\ new.usedExcuses = <<>>
            /\ ~new.completed /\ new.callbackFailures = 0
            /\ reply' = BlandLine
            /\ posts' = posts]_vars

\* a session two turns old that gave a phone number and is not classified a scam
C28_Witness ==
    /\ last.kind = "accepted"
    /\ "s1" \in DOMAIN store
    /\ ~store["s1"].scamDetected
    /\ store["s1"].turnCount >= 2
    /\ store["s1"].phoneNumbers # <<>>
    /\ store["s1"].stage = "HOOK"
    /\ reply = BlandLine

====
